---- MODULE Spec2Model ----
(***************************************************************************)
(* Conway's Game of Life on a toroidal grid, computed by the CUDA kernel   *)
(* updateGrid and driven by the frame loop of main (kernel.cu).            *)
(*                                                                         *)
(* The grid dimensions and the block size are the program's constants      *)
(* GRID_WIDTH, GRID_HEIGHT and BLOCK_SIZE; the model draws them from small *)
(* sets so that every state is enumerable.  Device memory is two buffers   *)
(* at the addresses 1 and 2; address 0 stands for a pointer that names no  *)
(* allocation.  A kernel launch is asynchronous: it adds one pending       *)
(* thread per (block, thread) index to the device, and the threads run in  *)
(* any order while the host goes on.                                       *)
(***************************************************************************)
EXTENDS Integers, Sequences, FiniteSets, TLC

\* ---------------------------------------------------------------- bounds
\* frame loop: grids of at most MaxWidth x MaxHeight cells, launches of at
\* most MaxThreads threads, at most MaxFrames frames
MaxWidth == 3
MaxHeight == 2
MaxThreads == 4
MaxFrames == 19
\* block sizes 1..MaxBlock (both specifications)
MaxBlock == 2
\* kernel harness: grids of at most MaxSide x MaxSide and MaxKernelCells cells
MaxSide == 3
MaxKernelCells == 9
\* pattern runs: gliders on grids of 10 .. MaxGliderSide cells a side, still
\* lifes on grids of 6 .. MaxStillSide cells a side
MaxGliderSide == 10
MaxStillSide == 6
\* frames of the runs with fairness
MaxFairFrames == 2

\* ------------------------------------------------------ program constants
\* variant: the period the comment of line 16 announces
UPDATE_FREQUENCY_Five == 6 - 1
UPDATE_FREQUENCY == 6
BLOCK_SIZE == 2

\* bytes an uninitialised allocation may hold
GarbageBytes == {0, 1, 255}

\* the three allocations of main
Allocations == {"h_grid", "d_grid", "d_newGrid"}

NULLPTR == 0

VARIABLES
    pc,          \* position of main
    width,       \* GRID_WIDTH
    height,      \* GRID_HEIGHT
    blockSize,   \* BLOCK_SIZE
    oom,         \* the allocations the environment refuses
    h_grid,      \* host buffer (<<>> before new[])
    d_grid,      \* host pointer variable: device address of the current grid
    d_newGrid,   \* host pointer variable: device address of the next grid
    dev,         \* device memory: address -> buffer (<<>> when not allocated)
    threads,     \* launched kernel threads that have not finished
    cudaError,   \* sticky device error (illegal address in a kernel)
    quit,        \* quit flag of the main loop
    frameCount,  \* frame counter of the main loop
    screen,      \* what the last render drew: the set of live cell indices
    grid0,       \* history: the grid initializeGrid produced
    launches,    \* history: number of kernel launches
    swaps,       \* history: number of pointer swaps
    copies,      \* history: number of completed device-to-host copies
    writes,      \* history: per cell, writes by the threads of the last launch
    snapshot,    \* history: the source buffer as it was at the last launch
    last,        \* history: what the thread that ran last read and wrote
    inited       \* history: the device cells <<address, index>> the program has stored to

vars == <<pc, width, height, blockSize, oom, h_grid, d_grid, d_newGrid, dev,
          threads, cudaError, quit, frameCount, screen, grid0, launches,
          swaps, copies, writes, snapshot, last, inited>>

\* ------------------------------------------------------------ arithmetic
\* C's % on int: the result takes the sign of the dividend
CMod(a, b) == IF a >= 0 THEN a % b ELSE 0 - ((0 - a) % b)

\* C's / on non-negative int
CDiv(a, b) == a \div b

Cells(w, h) == 0 .. (w * h - 1)

Fill(w, h, byte) == [c \in Cells(w, h) |-> byte]

\* ------------------------------------------------------- kernel updateGrid
\* int x = blockIdx.x * blockDim.x + threadIdx.x (and y likewise)
GlobalIdx(blockIdx, blockDim, threadIdx) == blockIdx * blockDim + threadIdx


\* variant: the guard lets x == width through
InGrid_Inclusive(x, y, w, h) == x <= w /\ y < h
\* if (x < width && y < height)
InGrid(x, y, w, h) == x < w /\ y < h

\* int idx = y * width + x
CellIdx(x, y, w) == y * w + x

\* the (dx, dy) pairs in the order of the two loops, (0, 0) skipped
NeighborOffsets ==
    << <<-1, -1>>, <<0, -1>>, <<1, -1>>,
       <<-1, 0>>,             <<1, 0>>,
       <<-1, 1>>,  <<0, 1>>,  <<1, 1>> >>


\* variant: the + width that keeps the dividend non-negative is missing
WrapX_NoBias(x, dx, w) == CMod(x + dx, w)
\* int nx = (x + dx + width) % width
WrapX(x, dx, w) == CMod(x + dx + w, w)


\* variant: the + height that keeps the dividend non-negative is missing
WrapY_NoBias(y, dy, h) == CMod(y + dy, h)
\* int ny = (y + dy + height) % height
WrapY(y, dy, h) == CMod(y + dy + h, h)

\* ny * width + nx, for the i-th neighbour
NeighborIdx(x, y, w, h, i) ==
    WrapY(y, NeighborOffsets[i][2], h) * w + WrapX(x, NeighborOffsets[i][1], w)

\* the indices the thread at (x, y) reads from the source buffer
ReadIdxs(x, y, w, h) ==
    {NeighborIdx(x, y, w, h, i) : i \in 1 .. Len(NeighborOffsets)} \cup {CellIdx(x, y, w)}

\* buf[i]; a read outside the allocation yields the byte oob
Load(buf, i, oob) == IF i \in DOMAIN buf THEN buf[i] ELSE oob

RECURSIVE SumNeighbors(_, _, _, _, _, _, _)
\* count += d_grid[ny * width + nx], over the first n neighbours
SumNeighbors(buf, x, y, w, h, oob, n) ==
    IF n = 0 THEN 0
    ELSE SumNeighbors(buf, x, y, w, h, oob, n - 1)
         + Load(buf, NeighborIdx(x, y, w, h, n), oob)

CountNeighbors(buf, x, y, w, h, oob) ==
    SumNeighbors(buf, x, y, w, h, oob, Len(NeighborOffsets))


\* variant: two neighbours keep or make a cell alive whatever its state
Rule_AnyTwo(count, cell) == IF count = 3 \/ count = 2 THEN 1 ELSE 0

\* variant: three neighbours give birth only, two are needed to stay alive
Rule_SurviveOnTwo(count, cell) ==
    IF (count = 3 /\ cell = 0) \/ (count = 2 /\ cell # 0) THEN 1 ELSE 0
\* (count == 3 || (count == 2 && d_grid[idx])) ? 1 : 0
Rule(count, cell) == IF count = 3 \/ (count = 2 /\ cell # 0) THEN 1 ELSE 0


\* variant: the block count is rounded down
GridDim_Floor(extent, b) == CDiv(extent, b)
\* dim3 gridSize((GRID_WIDTH + BLOCK_SIZE - 1) / BLOCK_SIZE, ...): blocks per axis
GridDim(extent, b) == CDiv(extent + b - 1, b)


\* variant: the launch passes the two buffers in the wrong order
KernelThreads_SwappedArgs(src, dst, w, h, b, gen) ==
    {[src |-> dst, dst |-> src, bx |-> bx, by |-> by, tx |-> tx, ty |-> ty, gen |-> gen] :
        bx \in 0 .. (GridDim(w, b) - 1), by \in 0 .. (GridDim(h, b) - 1),
        tx \in 0 .. (b - 1), ty \in 0 .. (b - 1)}
\* variant: the launch passes d_grid for both buffers, the update is in place
KernelThreads_InPlace(src, dst, w, h, b, gen) ==
    {[src |-> src, dst |-> src, bx |-> bx, by |-> by, tx |-> tx, ty |-> ty, gen |-> gen] :
        bx \in 0 .. (GridDim(w, b) - 1), by \in 0 .. (GridDim(h, b) - 1),
        tx \in 0 .. (b - 1), ty \in 0 .. (b - 1)}
\* the threads of one launch updateGrid<<<gridSize, blockSize>>>(src, dst, w, h)
KernelThreads(src, dst, w, h, b, gen) ==
    {[src |-> src, dst |-> dst, bx |-> bx, by |-> by, tx |-> tx, ty |-> ty, gen |-> gen] :
        bx \in 0 .. (GridDim(w, b) - 1), by \in 0 .. (GridDim(h, b) - 1),
        tx \in 0 .. (b - 1), ty \in 0 .. (b - 1)}

ThreadX(t, b) == GlobalIdx(t.bx, b, t.tx)
ThreadY(t, b) == GlobalIdx(t.by, b, t.ty)


\* number of threads of one launch
ThreadCount(w, h, b) == (GridDim(w, b) * b) * (GridDim(h, b) * b)

\* a device address that names an allocation
Valid(mem, a) == a \in DOMAIN mem /\ mem[a] # <<>>

\* the thread touches memory through a pointer that names no allocation
Faults(mem, t) == ~Valid(mem, t.src) \/ ~Valid(mem, t.dst)

\* the value the thread at (x, y) stores: lines 25-38
NextCell(buf, x, y, w, h, oob) ==
    Rule(CountNeighbors(buf, x, y, w, h, oob), Load(buf, CellIdx(x, y, w), oob))

\* d_newGrid[idx] = value
Store(mem, a, i, v) == [mem EXCEPT ![a] = [@ EXCEPT ![i] = v]]

\* what a thread leaves in the history variable last
Trace(t, x, y, guard, count, cell, value, reads, wrote, nreads) ==
    [gen |-> t.gen, x |-> x, y |-> y, guard |-> guard, count |-> count,
     cell |-> cell, value |-> value, reads |-> reads, wrote |-> wrote,
     nreads |-> nreads]

NoTrace == [gen |-> 0, x |-> 0, y |-> 0, guard |-> FALSE, count |-> 0,
            cell |-> 0, value |-> 0, reads |-> {}, wrote |-> {}, nreads |-> 0]

\* the indices of the 8 neighbours of (x, y): the reads of the two loops
NeighborIdxs(x, y, w, h) ==
    {NeighborIdx(x, y, w, h, i) : i \in 1 .. Len(NeighborOffsets)}

\* count == 3 || (count == 2 && d_grid[idx]): the own cell is read only when
\* the count is 2
ReadsOwnCell(count) == count # 3 /\ count = 2

\* one thread of updateGrid runs from its first line to its last
ThreadRun(t) ==
    LET x == ThreadX(t, blockSize)
        y == ThreadY(t, blockSize)
        idx == CellIdx(x, y, width)
    IN  /\ t \in threads
        /\ IF ~InGrid(x, y, width, height)
           THEN \* the guard fails: the thread returns at once
                /\ threads' = threads \ {t}
                /\ last' = Trace(t, x, y, FALSE, 0, 0, 0, {}, {}, 0)
                /\ UNCHANGED <<dev, cudaError, writes, inited>>
           ELSE IF Faults(dev, t)
           THEN \* illegal address: the kernel is aborted, the error is sticky
                /\ threads' = {}
                /\ cudaError' = TRUE
                /\ last' = Trace(t, x, y, TRUE, 0, 0, 0, {}, {}, 0)
                /\ UNCHANGED <<dev, writes, inited>>
           ELSE LET src == dev[t.src]
                    outside == ~(ReadIdxs(x, y, width, height) \subseteq DOMAIN src)
                IN  \E oob \in (IF outside THEN GarbageBytes ELSE {0}) :
                      LET count == CountNeighbors(src, x, y, width, height, oob)
                          cell == Load(src, idx, oob)
                          value == Rule(count, cell)
                          own == IF ReadsOwnCell(count) THEN {idx} ELSE {}
                          reads == {<<t.src, i>> :
                                       i \in NeighborIdxs(x, y, width, height) \cup own}
                          nreads == Len(NeighborOffsets) + Cardinality(own)
                      IN  /\ threads' = threads \ {t}
                          /\ last' = Trace(t, x, y, TRUE, count, cell, value,
                                           reads, {<<t.dst, idx>>}, nreads)
                          /\ IF idx \in DOMAIN dev[t.dst]
                             THEN /\ dev' = Store(dev, t.dst, idx, value)
                                  /\ writes' = [writes EXCEPT ![idx] = @ + 1]
                                  /\ inited' = inited \cup {<<t.dst, idx>>}
                             ELSE \* the store lands outside both buffers
                                  UNCHANGED <<dev, writes, inited>>
                          /\ UNCHANGED cudaError
        /\ UNCHANGED <<pc, width, height, blockSize, oom, h_grid, d_grid, d_newGrid,
                       quit, frameCount, screen, grid0, launches, swaps, copies,
                       snapshot>>

\* the device scheduler runs any pending thread
Thread == \E t \in threads : ThreadRun(t)

\* ------------------------------------------------------------------ main
\* SDL_Init, SDL_CreateWindow, SDL_CreateRenderer: any of them may fail
SetupSDL ==
    /\ pc = "sdl"
    /\ \E ok \in BOOLEAN : pc' = IF ok THEN "new" ELSE "exit"
    /\ UNCHANGED <<width, height, blockSize, oom, h_grid, d_grid, d_newGrid, dev,
                   threads, cudaError, quit, frameCount, screen, grid0, launches,
                   swaps, copies, writes, snapshot, last>>
    /\ UNCHANGED inited

\* h_grid = new unsigned char[GRID_WIDTH * GRID_HEIGHT]; std::bad_alloc is not
\* caught, so a failure ends the process in std::terminate
AllocHost ==
    /\ pc = "new"
    /\ IF "h_grid" \in oom
       THEN /\ pc' = "aborted"
            /\ UNCHANGED h_grid
       ELSE /\ pc' = "init"
            /\ \E g \in GarbageBytes : h_grid' = Fill(width, height, g)
    /\ UNCHANGED <<width, height, blockSize, oom, d_grid, d_newGrid, dev,
                   threads, cudaError, quit, frameCount, screen, grid0, launches,
                   swaps, copies, writes, snapshot, last>>
    /\ UNCHANGED inited

\* initializeGrid: every cell becomes 0 or 1
InitializeGrid ==
    /\ pc = "init"
    /\ \E g \in [Cells(width, height) -> {0, 1}] :
         /\ h_grid' = g
         /\ grid0' = g
    /\ pc' = "mallocGrid"
    /\ UNCHANGED <<width, height, blockSize, oom, d_grid, d_newGrid, dev,
                   threads, cudaError, quit, frameCount, screen, launches,
                   swaps, copies, writes, snapshot, last>>
    /\ UNCHANGED inited

\* cudaMalloc(&d_grid, ...): the result is not looked at; on failure the
\* pointer keeps naming no allocation
MallocGrid ==
    /\ pc = "mallocGrid"
    /\ IF "d_grid" \in oom
       THEN UNCHANGED <<d_grid, dev>>
       ELSE /\ d_grid' = 1
            /\ \E g \in GarbageBytes : dev' = [dev EXCEPT ![1] = Fill(width, height, g)]
    /\ pc' = "mallocNewGrid"
    /\ UNCHANGED <<width, height, blockSize, oom, h_grid, d_newGrid,
                   threads, cudaError, quit, frameCount, screen, grid0, launches,
                   swaps, copies, writes, snapshot, last>>
    /\ UNCHANGED inited

\* cudaMalloc(&d_newGrid, ...)
MallocNewGrid ==
    /\ pc = "mallocNewGrid"
    /\ IF "d_newGrid" \in oom
       THEN UNCHANGED <<d_newGrid, dev>>
       ELSE /\ d_newGrid' = 2
            /\ \E g \in GarbageBytes : dev' = [dev EXCEPT ![2] = Fill(width, height, g)]
    /\ pc' = "h2d"
    /\ UNCHANGED <<width, height, blockSize, oom, h_grid, d_grid,
                   threads, cudaError, quit, frameCount, screen, grid0, launches,
                   swaps, copies, writes, snapshot, last>>
    /\ UNCHANGED inited

\* cudaMemcpy(d_grid, h_grid, ..., cudaMemcpyHostToDevice)
MemcpyH2D ==
    /\ pc = "h2d"
    /\ threads = {}
    /\ IF Valid(dev, d_grid) /\ ~cudaError
       THEN /\ dev' = [dev EXCEPT ![d_grid] = h_grid]
            /\ inited' = inited \cup {<<d_grid, c>> : c \in DOMAIN h_grid}
       ELSE UNCHANGED <<dev, inited>>
    /\ pc' = "loop"
    /\ UNCHANGED <<width, height, blockSize, oom, h_grid, d_grid, d_newGrid,
                   threads, cudaError, quit, frameCount, screen, grid0, launches,
                   swaps, copies, writes, snapshot, last>>

\* while (!quit) { while (SDL_PollEvent(&e)) if (e.type == SDL_QUIT) quit = true;
LoopHead ==
    /\ pc = "loop"
    /\ IF quit
       THEN /\ pc' = "cleanup"
            /\ UNCHANGED quit
       ELSE /\ frameCount < MaxFrames
            /\ \E q \in BOOLEAN : quit' = q
            /\ pc' = "tick"
    /\ UNCHANGED <<width, height, blockSize, oom, h_grid, d_grid, d_newGrid, dev,
                   threads, cudaError, frameCount, screen, grid0, launches,
                   swaps, copies, writes, snapshot, last>>
    /\ UNCHANGED inited

\* if (frameCount % UPDATE_FREQUENCY == 0) updateGrid<<<gridSize, blockSize>>>(
\*     d_grid, d_newGrid, GRID_WIDTH, GRID_HEIGHT): the launch returns at once
Launch ==
    /\ pc = "tick"
    /\ CMod(frameCount, UPDATE_FREQUENCY) = 0
    /\ threads' = IF cudaError THEN threads
                  ELSE threads \cup KernelThreads(d_grid, d_newGrid, width, height,
                                                  blockSize, launches + 1)
    /\ launches' = launches + 1
    /\ writes' = Fill(width, height, 0)
    /\ snapshot' = IF Valid(dev, d_grid) THEN dev[d_grid] ELSE <<>>
    /\ pc' = "swap"
    /\ UNCHANGED <<width, height, blockSize, oom, h_grid, d_grid, d_newGrid, dev,
                   cudaError, quit, frameCount, screen, grid0, swaps, copies, last>>
    /\ UNCHANGED inited

\* the frames in between: the if is skipped
SkipUpdate ==
    /\ pc = "tick"
    /\ CMod(frameCount, UPDATE_FREQUENCY) # 0
    /\ pc' = "render"
    /\ UNCHANGED <<width, height, blockSize, oom, h_grid, d_grid, d_newGrid, dev,
                   threads, cudaError, quit, frameCount, screen, grid0, launches,
                   swaps, copies, writes, snapshot, last>>
    /\ UNCHANGED inited



\* variant: no temporary, both pointers end up naming the same buffer
SwapPointers_Alias(a, b) == <<b, b>>
\* variant: the pointers are not exchanged
SwapPointers_Keep(a, b) == <<a, b>>
\* temp = d_grid; d_grid = d_newGrid; d_newGrid = temp
SwapPointers(a, b) == <<b, a>>

Swap ==
    /\ pc = "swap"
    /\ d_grid' = SwapPointers(d_grid, d_newGrid)[1]
    /\ d_newGrid' = SwapPointers(d_grid, d_newGrid)[2]
    /\ swaps' = swaps + 1
    /\ pc' = "d2h"
    /\ UNCHANGED <<width, height, blockSize, oom, h_grid, dev,
                   threads, cudaError, quit, frameCount, screen, grid0, launches,
                   copies, writes, snapshot, last>>
    /\ UNCHANGED inited


\* variant: the copy does not wait for the kernel
CopyMayStart_Async(pending) == TRUE

\* variant: the copy waits for the wrong condition, a kernel still running
CopyMayStart_WhileRunning(pending) == pending # {}
\* cudaMemcpy on the default stream returns only when the kernels launched
\* before it have finished
CopyMayStart(pending) == pending = {}

\* cudaMemcpy(h_grid, d_grid, ..., cudaMemcpyDeviceToHost)
MemcpyD2H ==
    /\ pc = "d2h"
    /\ CopyMayStart(threads)
    /\ IF Valid(dev, d_grid) /\ ~cudaError
       THEN h_grid' = dev[d_grid]
       ELSE UNCHANGED h_grid
    /\ copies' = copies + 1
    /\ pc' = "render"
    /\ UNCHANGED <<width, height, blockSize, oom, d_grid, d_newGrid, dev,
                   threads, cudaError, quit, frameCount, screen, grid0, launches,
                   swaps, writes, snapshot, last>>
    /\ UNCHANGED inited


\* variant: the test of the render loop is inverted, dead cells are drawn
LiveCells_Dead(buf) == {c \in DOMAIN buf : buf[c] = 0}
\* the cells the render loop fills: those with h_grid[y * GRID_WIDTH + x] != 0
LiveCells(buf) == {c \in DOMAIN buf : buf[c] # 0}

\* clear, draw every live cell, present, SDL_Delay, frameCount++
Render ==
    /\ pc = "render"
    /\ screen' = LiveCells(h_grid)
    /\ frameCount' = frameCount + 1
    /\ pc' = "loop"
    /\ UNCHANGED <<width, height, blockSize, oom, h_grid, d_grid, d_newGrid, dev,
                   threads, cudaError, quit, grid0, launches, swaps, copies,
                   writes, snapshot, last>>
    /\ UNCHANGED inited

\* cudaFree (which waits for the device), delete[], SDL teardown, return 0
Cleanup ==
    /\ pc = "cleanup"
    /\ threads = {}
    /\ dev' = [a \in DOMAIN dev |-> <<>>]
    /\ inited' = {}
    /\ h_grid' = <<>>
    /\ pc' = "done"
    /\ UNCHANGED <<width, height, blockSize, oom, d_grid, d_newGrid,
                   threads, cudaError, quit, frameCount, screen, grid0, launches,
                   swaps, copies, writes, snapshot, last>>

\* ------------------------------------------------------- specifications
\* the (width, height, block size) triples of the frame loop
Configs ==
    {c \in (1 .. MaxWidth) \X (1 .. MaxHeight) \X (1 .. MaxBlock) :
        ThreadCount(c[1], c[2], c[3]) <= MaxThreads}

\* the state main starts in, with the allocations in refused failing
InitWith(refused) ==
    /\ pc = "sdl"
    /\ \E c \in Configs : width = c[1] /\ height = c[2] /\ blockSize = c[3]
    /\ oom \in refused
    /\ h_grid = <<>>
    /\ d_grid = NULLPTR
    /\ d_newGrid = NULLPTR
    /\ dev = [a \in 1 .. 2 |-> <<>>]
    /\ threads = {}
    /\ cudaError = FALSE
    /\ quit = FALSE
    /\ frameCount = 0
    /\ screen = {}
    /\ grid0 = <<>>
    /\ launches = 0
    /\ swaps = 0
    /\ copies = 0
    /\ writes = <<>>
    /\ snapshot = <<>>
    /\ last = NoTrace
    /\ inited = {}

\* every allocation succeeds
Init == InitWith({{}})

\* any allocation may fail
InitAlloc == InitWith(SUBSET Allocations)

Next ==
    \/ SetupSDL
    \/ AllocHost
    \/ InitializeGrid
    \/ MallocGrid
    \/ MallocNewGrid
    \/ MemcpyH2D
    \/ LoopHead
    \/ Launch
    \/ SkipUpdate
    \/ Swap
    \/ MemcpyD2H
    \/ Render
    \/ Cleanup
    \/ Thread

Spec == Init /\ [][Next]_vars

SpecAlloc == InitAlloc /\ [][Next]_vars

\* the runs the progress properties are checked on: grids of one row, the
\* frame loop stopped at the head of frame MaxFairFrames
InitFair == Init /\ height = 1

NextFair == Next /\ ~(pc = "loop" /\ frameCount >= MaxFairFrames)

\* the device runs every pending thread to its end, and the host, a sequential
\* program, goes on with the statements of the update block and the rendering
SpecFair ==
    /\ InitFair
    /\ [][NextFair]_vars
    /\ WF_vars(Thread)
    /\ WF_vars(Swap \/ MemcpyD2H \/ Render)


\* ------------------------------------------------------- kernel harness
\* One launch of updateGrid on every grid of at most MaxSide x MaxSide and
\* at most MaxKernelCells cells:
\* the state of main right after its first launch, the threads run one at
\* a time in the order of their linear index.
KernelConfigs ==
    {c \in (1 .. MaxSide) \X (1 .. MaxSide) \X (1 .. MaxBlock) :
        c[1] * c[2] <= MaxKernelCells}

\* block-major, then thread-major linear index of a thread
Rank(t, w, b) == ((t.by * GridDim(w, b) + t.bx) * b + t.ty) * b + t.tx

InitKernel ==
    /\ pc = "swap"
    /\ \E c \in KernelConfigs : width = c[1] /\ height = c[2] /\ blockSize = c[3]
    /\ oom = {}
    /\ h_grid \in [Cells(width, height) -> {0, 1}]
    /\ grid0 = h_grid
    /\ d_grid = 1
    /\ d_newGrid = 2
    /\ \E g \in GarbageBytes : dev = [a \in 1 .. 2 |-> IF a = 1 THEN h_grid
                                                      ELSE Fill(width, height, g)]
    /\ threads = KernelThreads(1, 2, width, height, blockSize, 1)
    /\ cudaError = FALSE
    /\ quit = FALSE
    /\ frameCount = 0
    /\ screen = {}
    /\ launches = 1
    /\ swaps = 0
    /\ copies = 0
    /\ writes = Fill(width, height, 0)
    /\ snapshot = h_grid
    /\ last = NoTrace
    /\ inited = {<<1, c>> : c \in Cells(width, height)}

SerialThread ==
    \E t \in threads :
        /\ \A u \in threads : Rank(t, width, blockSize) <= Rank(u, width, blockSize)
        /\ ThreadRun(t)

NextKernel == SerialThread

SpecKernel == InitKernel /\ [][NextKernel]_vars

\* the <<blockIdx, threadIdx>> pairs of one axis of a launch over n cells whose
\* global index along that axis is i
AxisThreads(i, n, b) ==
    {p \in (0 .. (GridDim(n, b) - 1)) \X (0 .. (b - 1)) : GlobalIdx(p[1], b, p[2]) = i}

\* the number of threads of a launch that pass the guard and store to cell c:
\* those whose x is c's column and whose y is c's row
WriterCount(c, w, h, b) ==
    IF InGrid(CMod(c, w), CDiv(c, w), w, h)
    THEN Cardinality(AxisThreads(CMod(c, w), w, b)) * Cardinality(AxisThreads(CDiv(c, w), h, b))
    ELSE 0

\* the next buffer one launch with block size b leaves, from the source buffer
\* cur and the previous content old of the destination
Generation(cur, old, w, h, b) ==
    [c \in DOMAIN old |->
        IF WriterCount(c, w, h, b) = 0 THEN old[c]
        ELSE NextCell(cur, CMod(c, w), CDiv(c, w), w, h, 0)]

\* ---------------------------------------------- Conway's rule on a torus
\* the reference the claims compare the program with
Offsets8 == ({-1, 0, 1} \X {-1, 0, 1}) \ {<<0, 0>>}

TorusIdx(x, y, w, h) == (y % h) * w + (x % w)

LiveNeighbours(g, x, y, w, h) ==
    Cardinality({d \in Offsets8 : g[TorusIdx(x + d[1], y + d[2], w, h)] = 1})

ConwayStep(g, w, h) ==
    [c \in DOMAIN g |->
        LET n == LiveNeighbours(g, c % w, c \div w, w, h)
        IN  IF n = 3 \/ (n = 2 /\ g[c] = 1) THEN 1 ELSE 0]

RECURSIVE Iterate(_, _, _, _)
Iterate(g, w, h, k) == IF k = 0 THEN g ELSE ConwayStep(Iterate(g, w, h, k - 1), w, h)

\* main is outside the update block of the frame loop
BetweenTicks == pc \in {"loop", "tick", "render", "cleanup"}


\* ================================================================ claims

\* C1: after k update ticks (launch, swap, device-to-host copy) the buffer
\* d_grid points to, and its host copy h_grid, hold the k-fold application of
\* Conway's step to the initial grid, and the number of swaps is the number
\* of generations applied.
C1_KFoldGeneration ==
    (BetweenTicks /\ grid0 # <<>>) =>
        /\ swaps = launches
        /\ copies = launches
        /\ Valid(dev, d_grid)
        /\ dev[d_grid] = Iterate(grid0, width, height, swaps)
        /\ h_grid = Iterate(grid0, width, height, swaps)

\* C1 witness: two ticks done, and each of them changed the grid
C1_Witness ==
    /\ pc = "render"
    /\ swaps = 2
    /\ h_grid # grid0
    /\ h_grid # Iterate(grid0, width, height, 1)
    /\ grid0 # Iterate(grid0, width, height, 1)

\* C2: the value a thread writes is alive exactly when count == 3, or
\* count == 2 and the cell is alive; a live cell with 0 neighbours dies, a
\* cell with 3 is alive, a dead cell with 2 stays dead, a live cell with 4 or
\* more dies.
C2_UpdateRule ==
    (last.guard /\ last.wrote # {}) =>
        /\ last.cell \in {0, 1}
        /\ last.count \in 0 .. 8
        /\ last.value \in {0, 1}
        /\ (last.value = 1) <=> (last.count = 3 \/ (last.count = 2 /\ last.cell = 1))
        /\ (last.cell = 1 /\ last.count = 0) => last.value = 0
        /\ last.count = 3 => last.value = 1
        /\ (last.cell = 0 /\ last.count = 2) => last.value = 0
        /\ (last.cell = 1 /\ last.count = 2) => last.value = 1
        /\ (last.cell = 1 /\ last.count >= 4) => last.value = 0
        /\ \A wr \in last.wrote : dev[wr[1]][wr[2]] = last.value

\* C2 witness: a dead cell with exactly two live neighbours was left dead
C2_Witness ==
    /\ last.guard
    /\ last.wrote # {}
    /\ last.cell = 0
    /\ last.count = 2
    /\ last.value = 0

\* C3: the count a thread computes is in 0..8 and is the number of live cells
\* among the 8 positions ((x+dx+width) % width, (y+dy+height) % height); at
\* (0, 0) the cell (W-1, H-1) is among them.
C3_NeighborCount ==
    (last.guard /\ last.wrote # {}) =>
        /\ last.count \in 0 .. 8
        /\ last.count = LiveNeighbours(snapshot, last.x, last.y, width, height)
        /\ (last.x = 0 /\ last.y = 0) =>
               last.count >= snapshot[(height - 1) * width + (width - 1)]
        /\ \A rd \in last.reads :
               rd[2] = CellIdx(last.x, last.y, width)
               \/ \E d \in Offsets8 :
                      rd[2] = TorusIdx(last.x + d[1], last.y + d[2], width, height)

\* C3 witness: on a 3 x 3 grid whose only live cell is (W-1, H-1), the corner
\* thread (0, 0) counted one neighbour
C3_Witness ==
    /\ width = 3
    /\ height = 3
    /\ last.guard
    /\ last.wrote # {}
    /\ last.x = 0
    /\ last.y = 0
    /\ LiveCells(snapshot) = {(height - 1) * width + (width - 1)}
    /\ last.count = 1

\* C4: ceil(W/B) x ceil(H/B) blocks of B x B threads with the guard assign
\* every cell to exactly one thread: no cell is written twice, none is left
\* unwritten in a generation, and a thread outside the grid writes nothing.
C4_ExactCover ==
    /\ \A c \in DOMAIN writes : writes[c] <= 1
    /\ threads = {} => \A c \in Cells(width, height) : writes[c] = 1
    /\ (last.x >= width \/ last.y >= height) => last.wrote = {}
    /\ \A wr \in last.wrote : wr[2] \in Cells(width, height)
    /\ \A c \in Cells(width, height) :
           Cardinality({t \in KernelThreads(1, 2, width, height, blockSize, 1) :
                           /\ InGrid(ThreadX(t, blockSize), ThreadY(t, blockSize),
                                     width, height)
                           /\ CellIdx(ThreadX(t, blockSize), ThreadY(t, blockSize),
                                      width) = c}) = 1

\* C4 witness: a launch whose block size divides neither extent has finished;
\* its last thread was outside the grid
C4_Witness ==
    /\ threads = {}
    /\ width = 3
    /\ height = 3
    /\ blockSize = 2
    /\ last.gen = 1
    /\ ~last.guard
    /\ last.x >= width

\* the block sizes partition invariance is checked for: from 1 x 1 tiles to a
\* single tile that holds the whole grid
TileSizes == 1 .. MaxSide

\* C5: for a fixed current buffer the next buffer of one generation is the
\* same for every block size, 1 x 1 and a single tile included.
C5_PartitionInvariance ==
    threads = {} =>
        \A b \in TileSizes :
            dev[d_newGrid] = Generation(snapshot, dev[d_newGrid], width, height, b)

\* C5 witness: a finished launch with 2 x 2 blocks on a 3 x 3 grid that has
\* live and dead cells in its result
C5_Witness ==
    /\ threads = {}
    /\ width = 3
    /\ height = 3
    /\ blockSize = 2
    /\ \E c, e \in Cells(width, height) : dev[d_newGrid][c] = 1 /\ dev[d_newGrid][e] = 0


\* the update block of the frame loop: between the launch and the return of
\* the device-to-host copy
InFlight == pc \in {"swap", "d2h"}

\* the buffers designated current and next when the last launch was made
DispatchedCurrent == IF pc = "swap" THEN d_grid ELSE d_newGrid
DispatchedNext == IF pc = "swap" THEN d_newGrid ELSE d_grid

\* C6: while an update is in flight every thread reads only the buffer that
\* was current at dispatch and writes only its own cell of the other buffer;
\* the current buffer is unchanged from dispatch until the generation
\* completes, and no buffer is both read and written in a generation.
C6_ReadWriteSeparation ==
    InFlight =>
        /\ DispatchedCurrent # DispatchedNext
        /\ Valid(dev, DispatchedCurrent)
        /\ dev[DispatchedCurrent] = snapshot
        /\ \A t \in threads : t.src = DispatchedCurrent /\ t.dst = DispatchedNext
        /\ last.gen = launches =>
               /\ \A rd \in last.reads : rd[1] = DispatchedCurrent
               /\ \A wr \in last.wrote :
                      wr = <<DispatchedNext, CellIdx(last.x, last.y, width)>>

\* C6 witness: in the second generation a thread has stored a live cell into
\* the next buffer while other threads are still pending
C6_Witness ==
    /\ InFlight
    /\ launches = 2
    /\ threads # {}
    /\ last.gen = 2
    /\ last.wrote # {}
    /\ last.value = 1

C8_GenerationOrder ==
    /\ pc = "tick" => threads = {}
    /\ \A t \in threads : t.gen = launches
    /\ threads # {} =>
           /\ snapshot = Iterate(grid0, width, height, launches - 1)
           /\ \A t \in threads : dev[t.src] = snapshot
    /\ (InFlight /\ last.gen = launches /\ last.wrote # {}) =>
           last.count = LiveNeighbours(Iterate(grid0, width, height, launches - 1),
                                       last.x, last.y, width, height)

\* C8 witness: a thread of the second generation has run on a buffer the
\* first generation changed
C8_Witness ==
    /\ launches = 2
    /\ threads # {}
    /\ last.gen = 2
    /\ last.wrote # {}
    /\ snapshot # grid0

\* both device buffers exist: from the second cudaMalloc to cudaFree
BuffersLive == pc \in {"h2d", "loop", "tick", "swap", "d2h", "render", "cleanup"}

\* C9: d_grid and d_newGrid always name two distinct buffers of equal size,
\* the swap exchanges the two pointers and changes no cell, and two swaps
\* restore the designation.
C9_DoubleBuffer ==
    /\ [](BuffersLive =>
            /\ {d_grid, d_newGrid} = {1, 2}
            /\ d_grid # d_newGrid
            /\ DOMAIN dev[d_grid] = Cells(width, height)
            /\ DOMAIN dev[d_newGrid] = Cells(width, height)
            /\ d_grid = IF swaps % 2 = 0 THEN 1 ELSE 2)
    /\ [][swaps' # swaps =>
            /\ d_grid' = d_newGrid
            /\ d_newGrid' = d_grid
            /\ dev' = dev
            /\ h_grid' = h_grid]_vars

\* C9 witness: after the second swap d_grid names the first buffer again
C9_Witness ==
    /\ pc = "d2h"
    /\ swaps = 2
    /\ d_grid = 1
    /\ d_newGrid = 2

\* the allocation statement of a has been executed
Attempted(a) ==
    CASE a = "h_grid"    -> pc \notin {"sdl", "exit", "new"}
      [] a = "d_grid"    -> pc \notin {"sdl", "exit", "new", "aborted", "init", "mallocGrid"}
      [] a = "d_newGrid" -> pc \notin {"sdl", "exit", "new", "aborted", "init", "mallocGrid",
                                       "mallocNewGrid"}

\* C10: once an allocation of a grid buffer has failed the program is
\* terminated: it launches no generation update and renders nothing.
C10_AllocFailureFatal ==
    (\E a \in oom : Attempted(a)) =>
        /\ launches = 0
        /\ pc \notin {"swap", "d2h", "render"}


\* C11: after each generation update the buffer the renderer reads, h_grid,
\* equals the new current buffer, the fully written result of the generation
\* just computed; rendering draws the live cells of h_grid and changes no
\* buffer; on frames without an update the buffers and what is displayed are
\* unchanged.
C11_DisplayHandoff ==
    /\ [](pc = "render" =>
            /\ h_grid = dev[d_grid]
            /\ launches > 0 =>
                   /\ \A c \in Cells(width, height) : writes[c] = 1
                   /\ h_grid = ConwayStep(snapshot, width, height))
    /\ [][pc = "render" =>
            /\ h_grid' = h_grid
            /\ dev' = dev
            /\ screen' = {c \in Cells(width, height) : h_grid[c] = 1}]_vars
    /\ [][(pc = "tick" /\ pc' = "render") => (h_grid' = h_grid /\ dev' = dev)]_vars
    /\ [][(pc = "render" /\ frameCount % 6 # 0) => screen' = screen]_vars

\* C11 witness: the frame after the second update has been rendered, and the
\* screen shows a second generation that differs from the first and from the
\* initial grid
C11_Witness ==
    /\ pc = "loop"
    /\ frameCount = 7
    /\ launches = 2
    /\ screen = {c \in Cells(width, height) : dev[d_grid][c] = 1}
    /\ screen # {c \in Cells(width, height) : grid0[c] = 1}
    /\ screen # {c \in Cells(width, height) : snapshot[c] = 1}

\* C12: for a fixed current buffer the next buffer of a completed generation
\* is the same for every order in which the threads run: every cell a thread
\* has stored already holds the value the serial evaluation of the launch
\* gives it, and the completed buffer is that evaluation.
C12_ScheduleDeterminism ==
    (InFlight /\ Valid(dev, DispatchedNext)) =>
        LET serial == Generation(snapshot, dev[DispatchedNext], width, height, blockSize)
        IN  /\ \A c \in Cells(width, height) :
                   writes[c] >= 1 => dev[DispatchedNext][c] = serial[c]
            /\ threads = {} => dev[DispatchedNext] = serial
            /\ threads = {} => dev[DispatchedNext] = ConwayStep(snapshot, width, height)

\* C12 witness: a launch of three one-thread blocks has completed with the
\* middle thread running last, an order the linear index order never takes,
\* and the result has a live cell
C12_Witness ==
    /\ InFlight
    /\ threads = {}
    /\ width = 3
    /\ blockSize = 1
    /\ last.gen = launches
    /\ last.x = 1
    /\ \E c \in Cells(width, height) : dev[DispatchedNext][c] = 1

\* ---------------------------------------------------------- pattern runs
\* The frame loop from its first iteration on, started on a glider, a block
\* still life or an all-dead grid, with the program's block size; the update
\* block of a frame (launch, all threads, swap, copy) is taken in one step.

\* the 5-cell glider that travels towards +x, +y
GliderShape == {<<1, 0>>, <<2, 1>>, <<0, 2>>, <<1, 2>>, <<2, 2>>}

\* the 2 x 2 block
BlockShape == {<<0, 0>>, <<1, 0>>, <<0, 1>>, <<1, 1>>}

\* the grid whose live cells are the shape placed at (px, py) on the torus
Place(shape, px, py, w, h) ==
    LET live == {TorusIdx(px + o[1], py + o[2], w, h) : o \in shape}
    IN  [c \in Cells(w, h) |-> IF c \in live THEN 1 ELSE 0]

Placements(shape, w, h) ==
    {Place(shape, px, py, w, h) : px \in 0 .. (w - 1), py \in 0 .. (h - 1)}

\* the <<width, height, grid>> triples the pattern runs start from
LifeInputs ==
    UNION {{<<wh[1], wh[2], g>> : g \in Placements(GliderShape, wh[1], wh[2])} :
               wh \in (10 .. MaxGliderSide) \X (10 .. MaxGliderSide)}
    \cup
    UNION {{<<wh[1], wh[2], g>> : g \in Placements(BlockShape, wh[1], wh[2])} :
               wh \in (6 .. MaxStillSide) \X (6 .. MaxStillSide)}
    \cup
    {<<wh[1], wh[2], Fill(wh[1], wh[2], 0)>> : wh \in (1 .. MaxSide) \X (1 .. MaxSide)}

\* main at the top of the first loop iteration, the grid copied to the device
InitLife ==
    /\ pc = "loop"
    /\ blockSize = BLOCK_SIZE
    /\ \E i \in LifeInputs : width = i[1] /\ height = i[2] /\ h_grid = i[3]
    /\ grid0 = h_grid
    /\ oom = {}
    /\ d_grid = 1
    /\ d_newGrid = 2
    /\ \E g \in GarbageBytes : dev = [a \in 1 .. 2 |-> IF a = 1 THEN h_grid
                                                      ELSE Fill(width, height, g)]
    /\ threads = {}
    /\ cudaError = FALSE
    /\ quit = FALSE
    /\ frameCount = 0
    /\ screen = {}
    /\ launches = 0
    /\ swaps = 0
    /\ copies = 0
    /\ writes = <<>>
    /\ snapshot = <<>>
    /\ last = NoTrace
    /\ inited = {<<1, c>> : c \in Cells(width, height)}

\* the update block of one frame, lines 108-117, with every thread of the
\* launch run before the copy returns
Generate ==
    /\ pc = "tick"
    /\ CMod(frameCount, UPDATE_FREQUENCY) = 0
    /\ threads = {}
    /\ ~cudaError
    /\ Valid(dev, d_grid)
    /\ Valid(dev, d_newGrid)
    /\ dev' = [dev EXCEPT ![d_newGrid] =
                   Generation(dev[d_grid], dev[d_newGrid], width, height, blockSize)]
    /\ d_grid' = SwapPointers(d_grid, d_newGrid)[1]
    /\ d_newGrid' = SwapPointers(d_grid, d_newGrid)[2]
    /\ h_grid' = dev'[d_grid']
    /\ launches' = launches + 1
    /\ swaps' = swaps + 1
    /\ copies' = copies + 1
    /\ writes' = [c \in Cells(width, height) |-> WriterCount(c, width, height, blockSize)]
    /\ snapshot' = dev[d_grid]
    /\ inited' = inited \cup {<<d_newGrid, c>> : c \in {e \in Cells(width, height) : writes'[e] > 0}}
    /\ pc' = "render"
    /\ UNCHANGED <<width, height, blockSize, oom, threads, cudaError, quit,
                   frameCount, screen, grid0, last>>

NextLife ==
    \/ LoopHead
    \/ Generate
    \/ SkipUpdate
    \/ Render
    \/ Cleanup

SpecLife == InitLife /\ [][NextLife]_vars

\* the live cells of a grid
LiveSet(g) == {c \in DOMAIN g : g[c] = 1}

\* the cells a shape covers when placed at (px, py) on the torus
Covered(shape, px, py, w, h) == {TorusIdx(px + o[1], py + o[2], w, h) : o \in shape}

\* grid g moved by (dx, dy) on the torus
Translate(g, dx, dy, w, h) ==
    [c \in DOMAIN g |-> g[TorusIdx((c % w) - dx + w, (c \div w) - dy + h, w, h)]]

\* the run started with the glider as its only live cells on a grid of at
\* least 10 x 10
GliderRun ==
    /\ width >= 10
    /\ height >= 10
    /\ LET live == LiveSet(grid0)
       IN  /\ Cardinality(live) = 5
           /\ \E px \in 0 .. (width - 1), py \in 0 .. (height - 1) :
                  live = Covered(GliderShape, px, py, width, height)

\* C13: started on the 5-cell glider alone on a torus of at least 10 x 10,
\* after exactly 4 generations the current buffer and its host copy hold
\* the same shape moved by (+1, +1) modulo the grid size, every other cell
\* dead; after 1, 2 or 3 generations they do not.
C13_GliderTranslation ==
    (BetweenTicks /\ swaps \in 1 .. 4 /\ GliderRun) =>
        /\ dev[d_grid] = h_grid
        /\ Cardinality(LiveSet(h_grid)) = 5
        /\ \A c \in DOMAIN h_grid : h_grid[c] \in {0, 1}
        /\ (swaps = 4) <=> (h_grid = Translate(grid0, 1, 1, width, height))

\* the glider placed across the corner of the torus has travelled to the origin
C13_Witness ==
    /\ pc = "render"
    /\ swaps = 4
    /\ width = 10
    /\ LiveSet(grid0) = Covered(GliderShape, width - 1, height - 1, width, height)
    /\ LiveSet(h_grid) = Covered(GliderShape, 0, 0, width, height)
    /\ dev[d_grid] = h_grid

\* the run started with one 2 x 2 block as its only live cells on a grid of
\* at least 6 x 6
BlockRun ==
    /\ width >= 6
    /\ height >= 6
    /\ LET live == LiveSet(grid0)
       IN  /\ Cardinality(live) = 4
           /\ \E px \in 0 .. (width - 1), py \in 0 .. (height - 1) :
                  live = Covered(BlockShape, px, py, width, height)

\* C14: started on a 2 x 2 block alone on a torus of at least 6 x 6, at any
\* position, the wrap-around edges included, the current buffer and its host
\* copy equal the initial grid after every completed generation.
C14_BlockStillLife ==
    (BetweenTicks /\ BlockRun) =>
        /\ dev[d_grid] = grid0
        /\ h_grid = grid0
        /\ swaps > 0 => snapshot = grid0

\* four generations of the block that lies across the corner of the torus
C14_Witness ==
    /\ pc = "render"
    /\ swaps = 4
    /\ width = 6
    /\ LiveSet(grid0) = {0, width - 1, width * (height - 1), width * height - 1}
    /\ h_grid = grid0

\* every cell of the grid is dead
AllDead(g) == \A c \in DOMAIN g : g[c] = 0

\* C15: started on an all-dead grid of any size, 1 x 1 and the sizes the
\* block size does not divide included, the current buffer and its host copy
\* are all dead after every completed generation, whatever the next buffer
\* held when it was allocated.
C15_DeadStaysDead ==
    (BetweenTicks /\ AllDead(grid0)) =>
        /\ DOMAIN dev[d_grid] = Cells(width, height)
        /\ AllDead(dev[d_grid])
        /\ AllDead(h_grid)
        /\ swaps > 0 => AllDead(dev[d_newGrid])

\* four generations of a dead 3 x 3 grid, which blocks of 2 x 2 do not tile
C15_Witness ==
    /\ pc = "render"
    /\ swaps = 4
    /\ width = 3
    /\ height = 3
    /\ blockSize = 2
    /\ AllDead(grid0)
    /\ AllDead(h_grid)
    /\ \A c \in Cells(width, height) : writes[c] = 1

\* C16 as stated: every thread that passes the guard does exactly 8 reads and
\* 1 write. Refuted by a thread that counts 2 live neighbours, which reads its
\* own cell as well.
C16_ExactlyEightReads ==
    (last.gen > 0 /\ last.guard) =>
        /\ last.nreads = 8
        /\ Cardinality(last.wrote) = 1

\* C16: no thread waits on another: a thread that runs does its 8
\* neighbour reads of the current buffer, one more read of its own cell when
\* it counted 2, and 1 write to the next buffer (nothing at all when the
\* guard fails), and finishes. The swap never blocks and the copy blocks
\* exactly while threads are pending, so with fair scheduling every launched
\* generation completes and the main loop reaches the next frame.
C16_GenerationCompletes ==
    /\ [](last.gen > 0 =>
             IF last.guard
             THEN /\ last.nreads \in {8, 9}
                  /\ last.nreads = 9 <=> last.count = 2
                  /\ Cardinality(last.wrote) = 1
             ELSE last.nreads = 0 /\ last.wrote = {})
    /\ [](pc = "swap" => ENABLED Swap)
    /\ [](pc = "d2h" => (ENABLED MemcpyD2H <=> threads = {}))
    /\ [](threads # {} => InFlight)
    /\ InFlight ~> (pc = "loop" /\ threads = {} /\ copies = launches)

\* a generation has completed whose last thread read its own cell too
C16_Witness ==
    /\ pc = "render"
    /\ launches = 1
    /\ copies = 1
    /\ threads = {}
    /\ last.gen = 1
    /\ last.guard
    /\ last.nreads = 9
    /\ last.count = 2

C18_IndexSafety ==
    /\ ~cudaError
    /\ \A a \in {d_grid, d_newGrid} : DOMAIN dev[a] = Cells(width, height)
    /\ (last.gen > 0 /\ last.guard) =>
           /\ last.x \in 0 .. (width - 1)
           /\ last.y \in 0 .. (height - 1)
           /\ last.wrote = {<<d_newGrid, last.y * width + last.x>>}
           /\ \A r \in last.reads \cup last.wrote :
                  r[2] >= 0 /\ r[2] < width * height
           /\ \A i \in 1 .. Len(NeighborOffsets) :
                  LET dx == NeighborOffsets[i][1]
                      dy == NeighborOffsets[i][2]
                  IN  /\ last.x + dx + width >= 0
                      /\ last.y + dy + height >= 0
                      /\ WrapX(last.x, dx, width) \in 0 .. (width - 1)
                      /\ WrapY(last.y, dy, height) \in 0 .. (height - 1)
                      /\ <<d_grid, NeighborIdx(last.x, last.y, width, height, i)>>
                             \in last.reads

\* the thread of the first cell has read the last cell of the buffer, its
\* neighbour at (-1, -1), and the thread of the last cell the first
C18_Witness ==
    /\ width = 3
    /\ height = 3
    /\ last.gen > 0
    /\ last.guard
    /\ \/ last.x = 0 /\ last.y = 0 /\ <<d_grid, width * height - 1>> \in last.reads
       \/ /\ last.x = width - 1
          /\ last.y = height - 1
          /\ <<d_grid, 0>> \in last.reads
          /\ last.wrote = {<<d_newGrid, width * height - 1>>}

\* C19: cudaMalloc leaves d_newGrid unwritten, and every cell a kernel
\* thread reads, every cell the device-to-host copy reads and every cell the
\* renderer reads has been written before, by the host-to-device copy or by
\* a launch all of whose threads have finished, and holds 0 or 1.
C19_NoUninitialisedRead ==
    /\ [](pc \in {"h2d", "loop", "tick"} /\ launches = 0 =>
             \A c \in Cells(width, height) : <<d_newGrid, c>> \notin inited)
    /\ [][(threads' # threads /\ launches' = launches) =>
              /\ last'.reads \subseteq inited
              /\ \A r \in last'.reads : dev[r[1]][r[2]] \in {0, 1}]_vars
    /\ [][launches' # launches =>
              /\ threads = {}
              /\ \A c \in Cells(width, height) :
                     <<d_grid, c>> \in inited /\ dev[d_grid][c] \in {0, 1}]_vars
    /\ [][copies' # copies =>
              /\ threads = {}
              /\ \A c \in Cells(width, height) :
                     <<d_grid, c>> \in inited /\ dev[d_grid][c] \in {0, 1}]_vars
    /\ [](pc = "render" => \A c \in Cells(width, height) : h_grid[c] \in {0, 1})

\* a thread of the second launch has read the buffer cudaMalloc left unwritten
C19_Witness ==
    /\ last.gen = 2
    /\ last.guard
    /\ last.reads # {}
    /\ \A r \in last.reads : r[1] = 2 /\ r \in inited
    /\ InFlight

====
